---- MODULE Spec2Model ----
(***************************************************************************)
(* A model of the EmiReader command line tools (addEmiDataToMesh,          *)
(* EmiData2PolyData, ErtData2Mesh, addScalarArrayTimeSeries,               *)
(* makeBuildings).                                                         *)
(*                                                                         *)
(* Conventions.                                                            *)
(*  - std::vector<T> is a function with domain 0..n-1 (Vec, Size).         *)
(*  - A point or node is the tuple <<x, y, z>>; the C++ component [k] is   *)
(*    the tuple component k+1.                                             *)
(*  - Coordinates are integers: the model's length unit is a quarter of    *)
(*    the unit used in the specification's scenarios, so the unit square   *)
(*    has the corners (0,0), (4,0), (4,4), (0,4) and the sample position   *)
(*    (0.25, 0.75) is (1, 3).                                              *)
(*  - A double that is the result of a division is the reduced fraction    *)
(*    <<numerator, denominator>>.                                          *)
(***************************************************************************)
EXTENDS Integers, Sequences, FiniteSets

VARIABLES
    tool,         \* the entry point that is running
    pc,           \* position in the running function
    rc,           \* value returned by main, or NoRc while it runs
    mesh,         \* the MeshLib::Mesh handed to getDataFromCSV / held by main
    data_points,  \* the std::vector<GeoLib::Point*> handed to getDataFromCSV
    flat_mesh,    \* getDataFromCSV: the projected copy, or NoMesh
    data,         \* getDataFromCSV: std::vector<double> data
    counter,      \* getDataFromCSV: std::vector<std::size_t> counter
    i,            \* getDataFromCSV: index of the sample loop
    assigned,     \* history: for each processed sample the cell it was added to, or NoCell
    dropped,      \* history: number of processed samples that matched no cell
    loc,          \* the local variables of the running main
    log           \* history: the files read and written so far, in order

----------------------------------------------------------------------------
(* std::vector helpers *)

\* A vector literal: element k of the C++ vector is s[k+1].
Vec(s) == [k \in 0..(Len(s) - 1) |-> s[k + 1]]

\* std::vector::size()
Size(v) == Cardinality(DOMAIN v)

\* std::vector<T>(n, x)
Filled(n, x) == [k \in 0..(n - 1) |-> x]

\* std::vector::push_back
PushBack(v, x) == [k \in 0..Size(v) |-> IF k < Size(v) THEN v[k] ELSE x]

\* Sum of an integer vector (used by the properties only).
RECURSIVE SumUpTo(_, _)
SumUpTo(v, n) == IF n = 0 THEN 0 ELSE v[n - 1] + SumUpTo(v, n - 1)

SumVec(v) == SumUpTo(v, Size(v))

----------------------------------------------------------------------------
(* doubles that arise from a division *)

Abs(x) == IF x < 0 THEN -x ELSE x

RECURSIVE Gcd(_, _)
Gcd(a, b) == IF b = 0 THEN a ELSE Gcd(b, a % b)

\* The value n/d (d > 0) as a reduced fraction.
Frac(n, d) ==
    LET g == Gcd(Abs(n), d)
    IN  <<n \div g, d \div g>>

\* data[idx] += value, for an integer sample value.
FracAddInt(q, value) == Frac(q[1] + value * q[2], q[2])

\* data[i] /= static_cast<double>(counter[i])
FracDivInt(q, n) == Frac(q[1], q[2] * n)

Zero == Frac(0, 1)

----------------------------------------------------------------------------
(* Geometry: the library calls of getDataFromCSV *)

\* The value of a MeshLib::Mesh* that points to no mesh (nullptr, or deleted).
NoMesh == [nodes |-> <<>>, elems |-> <<>>, props |-> {<<"(no mesh)", <<>>>>}]

NoCell == -1

\* MathLib::sqrDist
sqrDist(p, q) ==
    (p[1] - q[1]) * (p[1] - q[1]) + (p[2] - q[2]) * (p[2] - q[2])
        + (p[3] - q[3]) * (p[3] - q[3])

Dot(v, w) == v[1] * w[1] + v[2] * w[2] + v[3] * w[3]

Sub(p, q) == <<p[1] - q[1], p[2] - q[2], p[3] - q[3]>>

\* The test with the border of the triangle left out.
gaussPointInTriangleOpen(q, a, b, c) ==
    LET v   == Sub(b, a)
        w   == Sub(c, a)
        r   == Sub(q, a)
        vv  == Dot(v, v)
        vw  == Dot(v, w)
        ww  == Dot(w, w)
        det == vv * ww - vw * vw
        n0  == ww * Dot(v, r) - vw * Dot(w, r)
        n1  == vv * Dot(w, r) - vw * Dot(v, r)
    IN  /\ det > 0
        /\ 0 < n0 /\ 0 < n1
        /\ n0 + n1 < det
        /\ \A k \in 1..3 : det * r[k] = n0 * v[k] + n1 * w[k]

\* GeoLib::gaussPointInTriangle(q, a, b, c): the normal equations
\*   (v.v) y0 + (v.w) y1 = v.(q-a),   (v.w) y0 + (w.w) y1 = w.(q-a)
\* for v = b-a, w = c-a are solved and q is inside when
\*   0 <= y0 <= 1, 0 <= y1 <= 1, y0 + y1 <= 1
\* and a + y0 v + y1 w is q.  y0 = n0/det and y1 = n1/det below.  The library
\* widens each comparison by the float epsilon (1.2e-7); on the coordinates of
\* this model a barycentric coordinate that is not 0 is at least 1/det in size,
\* with det < 10^5, so the tolerance never decides a test.  A degenerate
\* triangle (det = 0) yields no finite solution and the test fails.
gaussPointInTriangle(q, a, b, c) ==
    LET v   == Sub(b, a)
        w   == Sub(c, a)
        r   == Sub(q, a)
        vv  == Dot(v, v)
        vw  == Dot(v, w)
        ww  == Dot(w, w)
        det == vv * ww - vw * vw
        n0  == ww * Dot(v, r) - vw * Dot(w, r)
        n1  == vv * Dot(w, r) - vw * Dot(v, r)
    IN  /\ det > 0
        /\ 0 <= n0 /\ n0 <= det
        /\ 0 <= n1 /\ n1 <= det
        /\ n0 + n1 <= det
        /\ \A k \in 1..3 : det * r[k] = n0 * v[k] + n1 * w[k]

\* A projection along the direction (1, 1, 1) onto the plane.
ProjectNodeOblique(node, origin, normal) ==
    LET dist == Dot(Sub(node, origin), normal)
    IN  <<node[1] + dist, node[2] + dist, node[3] - dist * normal[3]>>

\* One node of MeshLib::projectMeshOntoPlane: node - ((node - origin).normal) normal
\* for a normal of length 1.
ProjectNode(node, origin, normal) ==
    LET dist == Dot(Sub(node, origin), normal)
    IN  <<node[1] - dist * normal[1], node[2] - dist * normal[2],
          node[3] - dist * normal[3]>>

\* The projection with the elements copied in reverse order.
projectMeshOntoPlaneReversed(m, origin, normal) ==
    [nodes |-> [k \in DOMAIN m.nodes |-> ProjectNode(m.nodes[k], origin, normal)],
     elems |-> [e \in DOMAIN m.elems |-> m.elems[Size(m.elems) - 1 - e]],
     props |-> {}]

\* MeshLib::projectMeshOntoPlane: a new mesh of projected nodes and copied
\* elements; node and element ids are the positions in the vectors; the
\* properties are not copied.
projectMeshOntoPlane(m, origin, normal) ==
    [nodes |-> [k \in DOMAIN m.nodes |-> ProjectNode(m.nodes[k], origin, normal)],
     elems |-> m.elems,
     props |-> {}]

\* Node::getElements(): the elements that reference node n, in the order in
\* which the mesh constructor visits them (ascending element id).
RECURSIVE ElementsOfNode(_, _, _)
ElementsOfNode(m, n, from) ==
    IF from >= Size(m.elems) THEN <<>>
    ELSE IF \E k \in DOMAIN m.elems[from] : m.elems[from][k] = n
         THEN <<from>> \o ElementsOfNode(m, n, from + 1)
         ELSE ElementsOfNode(m, n, from + 1)

getElements(m, n) == Vec(ElementsOfNode(m, n, 0))

\* GeoLib::Grid::getNearestPoint: the nodes at the least distance from pnt.
\* Which one of several equally near nodes the grid returns depends on its
\* cell layout; every one of them is a possible answer.
NearestNodes(m, pnt) ==
    {n \in DOMAIN m.nodes :
        \A o \in DOMAIN m.nodes :
            sqrDist(pnt, m.nodes[n]) <= sqrDist(pnt, m.nodes[o])}

----------------------------------------------------------------------------
(* Inputs: meshes and samples *)

MaxSamples == 3

Node2(x, y) == <<x, y, 0>>

\* One quadrilateral cell: the unit square, nodes in the order
\* (0,0), (1,0), (1,1), (0,1).
UnitSquare ==
    [nodes |-> Vec(<<Node2(0, 0), Node2(4, 0), Node2(4, 4), Node2(0, 4)>>),
     elems |-> Vec(<<Vec(<<0, 1, 2, 3>>)>>),
     props |-> {}]

\* Two unit squares that share the edge x = 1, each listed counterclockwise
\* from its lower left corner; the nodes carry an elevation.
TwoSquares ==
    [nodes |-> Vec(<<<<0, 0, 3>>, <<4, 0, 2>>, <<8, 0, 1>>,
                     <<0, 4, 3>>, <<4, 4, 2>>, <<8, 4, 1>>>>),
     elems |-> Vec(<<Vec(<<0, 1, 4, 3>>), Vec(<<1, 2, 5, 4>>)>>),
     props |-> {<<"MaterialIDs", Vec(<<0, 1>>)>>}]

\* The same two squares, the left one listed counterclockwise from its upper
\* left corner.
TwoSquaresTurned ==
    [nodes |-> Vec(<<Node2(0, 0), Node2(4, 0), Node2(8, 0),
                     Node2(0, 4), Node2(4, 4), Node2(8, 4)>>),
     elems |-> Vec(<<Vec(<<3, 0, 1, 4>>), Vec(<<1, 2, 5, 4>>)>>),
     props |-> {}]

\* The unit square split along its diagonal into two triangles.
TwoTriangles ==
    [nodes |-> Vec(<<<<0, 0, 1>>, <<4, 0, 2>>, <<4, 4, 5>>, <<0, 4, 0>>>>),
     elems |-> Vec(<<Vec(<<0, 1, 2>>), Vec(<<0, 2, 3>>)>>),
     props |-> {<<"MaterialIDs", Vec(<<0, 1>>)>>}]

\* A flat triangle above a deep one: the apex of the flat triangle is the
\* nearest node of points that lie in the deep triangle.
FlatOverDeep ==
    [nodes |-> Vec(<<Node2(0, 0), Node2(8, 0), Node2(4, 1), Node2(4, -4)>>),
     elems |-> Vec(<<Vec(<<0, 1, 2>>), Vec(<<0, 3, 1>>)>>),
     props |-> {}]

\* Nodes without cells.
NodesOnly ==
    [nodes |-> Vec(<<Node2(0, 0), Node2(4, 0)>>),
     elems |-> <<>>,
     props |-> {}]

\* Neither nodes nor cells.
EmptyMesh == [nodes |-> <<>>, elems |-> <<>>, props |-> {}]

Meshes2D == {UnitSquare, TwoSquares, TwoSquaresTurned, TwoTriangles, FlatOverDeep}

\* The meshes getDataFromCSV is called with: its one call, line 107, comes
\* after main has returned -3 for every mesh whose dimension is not 2
\* (lines 147-152).
CallMeshes == Meshes2D

\* Samples <<x, y, value>>.
Samples ==
    { <<1, 1, 10>>,     \* (0.25, 0.25)
      <<3, 3, 20>>,     \* (0.75, 0.75)
      <<20, 20, 999>>,  \* (5, 5): outside every mesh
      <<4, 2, 7>>,      \* (1, 0.5): on the edge x = 1
      <<1, 3, 5>>,      \* (0.25, 0.75)
      <<6, 1, 8>>,      \* (1.5, 0.25)
      <<4, -1, 4>> }    \* (1, -0.25)

SampleVectors == UNION {[0..(n - 1) -> Samples] : n \in 0..MaxSamples}

----------------------------------------------------------------------------
(* getDataFromCSV *)

\* The value of a double that is not a number (0.0 / 0.0).
NaN == <<0, 0>>

\* The call projectMeshOntoPlane(mesh, origin, normal) of line 45: the argument
\* is a const reference and the result is a new mesh.
ProjectInPlace(m) ==
    LET origin == <<0, 0, 0>>
        normal == <<0, 0, -1>>
        p      == projectMeshOntoPlane(m, origin, normal)
    IN  [argument |-> [p EXCEPT !.props = m.props], result |-> p]

ProjectCall(m) ==
    LET origin == <<0, 0, 0>>
        normal == <<0, 0, -1>>
    IN  [argument |-> m, result |-> projectMeshOntoPlane(m, origin, normal)]

\* Line 62: the test of element e of the flat mesh, on its nodes 0, 1 and 2.
ContainsPoint(fm, e, pnt) ==
    gaussPointInTriangle(pnt, fm.nodes[fm.elems[e][0]], fm.nodes[fm.elems[e][1]],
                         fm.nodes[fm.elems[e][2]])

\* Lines 58-69 without the break: every connected element that passes the test.
CellsHitNoBreak(fm, pnt, node) ==
    LET conn_elems == getElements(fm, node)
    IN  {conn_elems[j] : j \in {k \in DOMAIN conn_elems :
                                   ContainsPoint(fm, conn_elems[k], pnt)}}

\* Lines 58-69: the elements whose sum and counter the sample changes: the
\* first element connected to the nearest node that passes the test.
CellsHit(fm, pnt, node) ==
    LET conn_elems == getElements(fm, node)
        hits == {j \in DOMAIN conn_elems : ContainsPoint(fm, conn_elems[j], pnt)}
    IN  IF hits = {} THEN {}
        ELSE {conn_elems[CHOOSE j \in hits : \A k \in hits : j <= k]}

AccumulateOverwrite(d, hit, value) ==
    [idx \in DOMAIN d |-> IF idx \in hit THEN Frac(value, 1) ELSE d[idx]]

\* Line 65: data[idx] += value.
Accumulate(d, hit, value) ==
    [idx \in DOMAIN d |-> IF idx \in hit THEN FracAddInt(d[idx], value) ELSE d[idx]]

\* Line 66: counter[idx]++.
Count(c, hit) ==
    [idx \in DOMAIN c |-> IF idx \in hit THEN c[idx] + 1 ELSE c[idx]]

AverageNoGuard(d, c) ==
    [k \in DOMAIN d |-> IF c[k] = 0 THEN NaN ELSE FracDivInt(d[k], c[k])]

\* Lines 72-74.
Average(d, c) ==
    [k \in DOMAIN d |-> IF c[k] > 0 THEN FracDivInt(d[k], c[k]) ELSE d[k]]

\* Line 76: delete flat_mesh.
DeleteMesh(m) == NoMesh

\* Lines 43-53.  The grid is built over the nodes of the flat mesh; the
\* bounding box of no nodes does not exist and the construction ends the
\* program.
getDataFromCSV_Setup ==
    /\ pc = "gd_start"
    /\ LET call == ProjectCall(mesh)
           n_elems == Size(call.result.elems)
       IN  /\ mesh' = call.argument
           /\ flat_mesh' = call.result
           /\ data' = Filled(n_elems, Zero)
           /\ counter' = Filled(n_elems, 0)
           /\ pc' = IF Size(call.result.nodes) = 0 THEN "crash" ELSE "gd_loop"
    /\ i' = 0
    /\ UNCHANGED <<tool, rc, data_points, assigned, dropped, loc, log>>

\* Lines 54-70, one sample.
getDataFromCSV_Sample ==
    /\ pc = "gd_loop"
    /\ i < Size(data_points)
    /\ LET pnt == <<data_points[i][1], data_points[i][2], 0>>
       IN  \E node \in NearestNodes(flat_mesh, pnt) :
              LET hit == CellsHit(flat_mesh, pnt, node)
              IN  /\ data' = Accumulate(data, hit, data_points[i][3])
                  /\ counter' = Count(counter, hit)
                  /\ assigned' = PushBack(assigned,
                                     IF hit = {} THEN NoCell
                                     ELSE CHOOSE e \in hit : \A f \in hit : e <= f)
                  /\ dropped' = IF hit = {} THEN dropped + 1 ELSE dropped
    /\ i' = i + 1
    /\ UNCHANGED <<tool, pc, rc, mesh, data_points, flat_mesh, loc, log>>

\* Lines 72-74.
getDataFromCSV_Average ==
    /\ pc = "gd_loop"
    /\ i = Size(data_points)
    /\ data' = Average(data, counter)
    /\ pc' = "gd_avg"
    /\ UNCHANGED <<tool, rc, mesh, data_points, flat_mesh, counter, i, assigned, dropped, loc, log>>

\* Lines 76-77.
getDataFromCSV_Return ==
    /\ pc = "gd_avg"
    /\ flat_mesh' = DeleteMesh(flat_mesh)
    /\ pc' = "gd_done"
    /\ UNCHANGED <<tool, rc, mesh, data_points, data, counter, i, assigned, dropped, loc, log>>

getDataFromCSV ==
    \/ getDataFromCSV_Setup
    \/ getDataFromCSV_Sample
    \/ getDataFromCSV_Average
    \/ getDataFromCSV_Return

----------------------------------------------------------------------------
(* A call of getDataFromCSV on its own *)

NoRc == 99

vars == <<tool, pc, rc, mesh, data_points, flat_mesh, data, counter, i, assigned, dropped,
          loc, log>>

Init ==
    /\ tool = "getDataFromCSV"
    /\ pc = "gd_start"
    /\ rc = NoRc
    /\ mesh \in CallMeshes
    /\ data_points \in SampleVectors
    /\ flat_mesh = NoMesh
    /\ data = <<>>
    /\ counter = <<>>
    /\ i = 0
    /\ assigned = <<>>
    /\ dropped = 0
    /\ loc = <<>>
    /\ log = <<>>

Next == getDataFromCSV

Spec == Init /\ [][Next]_vars

----------------------------------------------------------------------------
(* What the tools find on disk, and the history of their file accesses *)

\* std::vector::insert(end, first, last)
Concat(a, b) ==
    [k \in 0..(Size(a) + Size(b) - 1) |-> IF k < Size(a) THEN a[k] ELSE b[k - Size(a)]]

\* A line element: a mesh of dimension 1.
LineMesh ==
    [nodes |-> Vec(<<Node2(0, 0), Node2(4, 0)>>),
     elems |-> Vec(<<Vec(<<0, 1>>)>>),
     props |-> {}]

\* The unit square of a file that addEmiDataToMesh has written before.
SquareWithData ==
    [nodes |-> UnitSquare.nodes,
     elems |-> UnitSquare.elems,
     props |-> {<<"TM_DD_V", Vec(<<Zero>>)>>}]

\* What readVTUFile can return: nullptr (NoMesh) or the mesh of the file.
VtuFiles == {NoMesh, LineMesh, NodesOnly, EmptyMesh, SquareWithData} \cup Meshes2D

\* A dimension taken of the coordinates the nodes have.
getDimensionOfNodes(m) == IF Size(m.nodes) = 0 THEN 0 ELSE 2

\* Mesh::getDimension(): the largest dimension of an element; a line has two
\* nodes, a triangle three and a quadrilateral four.
getDimension(m) ==
    IF \E e \in DOMAIN m.elems : Size(m.elems[e]) >= 3 THEN 2
    ELSE IF \E e \in DOMAIN m.elems : Size(m.elems[e]) = 2 THEN 1
    ELSE 0

\* An EMI file <base>_<region>_<dipole>.txt: Missing, or its data rows; a row
\* is <<x, y, value>> or BadRow, a line that does not parse.
Missing == <<"missing">>

BadRow == <<"bad row">>

EmiFiles ==
    { Missing,
      <<>>,
      << <<1, 1, 10>>, <<3, 3, 20>> >>,
      << BadRow, <<1, 3, 5>> >> }

\* The rows of a file that parse, as a vector.
GoodRows(file) == Vec(SelectSeq(file, LAMBDA row : row # BadRow))

\* The value CsvInterface::readPoints and CsvInterface::readColumn return: -1
\* when the file cannot be opened, otherwise the number of lines skipped.
readResult(file) ==
    IF file = Missing THEN -1 ELSE Len(SelectSeq(file, LAMBDA row : row = BadRow))

\* CsvInterface::readPoints(file, '\t', points, 1, 2, 3): the points appended.
readPoints(file) == IF file = Missing THEN <<>> ELSE GoodRows(file)

\* CsvInterface::readPoints(file, '\t', points, 1, 2): x and y; z is 0.
readPointsXY(file) ==
    [k \in DOMAIN readPoints(file) |->
        <<readPoints(file)[k][1], readPoints(file)[k][2], 0>>]

\* CsvInterface::readColumn(file, '\t', emi, 3): the values appended.
readColumn3(file) == [k \in DOMAIN readPoints(file) |-> readPoints(file)[k][3]]

\* An entry of the history: op is "read" or "write", e the value the read
\* returned (0 for a write) and n the number of items read or written.
Event(op, file, e, n) == [op |-> op, file |-> file, e |-> e, n |-> n]

\* Properties::createNewPropertyVector: no vector when the name is taken.
hasProperty(m, name) == \E p \in m.props : p[1] = name

createNewPropertyVector(m, name, values) ==
    [m EXCEPT !.props = @ \cup {<<name, values>>}]

----------------------------------------------------------------------------
(* addEmiDataToMesh *)

\* main, lines 139-153.
addEmi_ReadMesh ==
    /\ tool = "addEmiDataToMesh"
    /\ pc = "main"
    /\ \E file \in VtuFiles :
          /\ log' = log \o <<Event("read", <<"mesh_in">>,
                                   IF file = NoMesh THEN -1 ELSE 0, Size(file.nodes))>>
          /\ IF file = NoMesh
             THEN /\ rc' = -2 /\ pc' = "exit" /\ mesh' = NoMesh
             ELSE IF getDimension(file) # 2
             THEN /\ rc' = -3 /\ pc' = "exit" /\ mesh' = NoMesh
             ELSE /\ rc' = rc /\ pc' = "addFilesAsArrays" /\ mesh' = file
          /\ loc' = [name_specifier |-> "H", mesh_in |-> file]
    /\ UNCHANGED <<tool, data_points, flat_mesh, data, counter, i, assigned, dropped>>

\* addFilesAsArrays, lines 82-107, up to the call of getDataFromCSV.
addFilesAsArrays_Read ==
    /\ tool = "addEmiDataToMesh"
    /\ pc = "addFilesAsArrays"
    /\ \E f1, f2, f3 \in EmiFiles :
          LET e1 == readResult(f1)
              e2 == readResult(f2)
              e3 == readResult(f3)
              points == Concat(Concat(readPoints(f1), readPoints(f2)), readPoints(f3))
          IN  /\ log' = log \o
                    << Event("read", <<"csv", "A", loc.name_specifier>>, e1, Size(readPoints(f1))),
                       Event("read", <<"csv", "B", loc.name_specifier>>, e2, Size(readPoints(f2))),
                       Event("read", <<"csv", "C", loc.name_specifier>>, e3, Size(readPoints(f3))) >>
              /\ IF e1 < 0 \/ e2 < 0 \/ e3 < 0 \/ Size(points) = 0
                 THEN /\ mesh' = NoMesh
                      /\ data' = <<>>
                      /\ data_points' = <<>>
                      /\ pc' = "have_data"
                 ELSE /\ mesh' = mesh
                      /\ data' = data
                      /\ data_points' = points
                      /\ pc' = "gd_start"
    /\ assigned' = <<>>
    /\ dropped' = 0
    /\ UNCHANGED <<tool, rc, flat_mesh, counter, i, loc>>

\* addFilesAsArrays, lines 107-110: getDataFromCSV has returned.
addFilesAsArrays_Return ==
    /\ tool = "addEmiDataToMesh"
    /\ pc = "gd_done"
    /\ data_points' = <<>>
    /\ pc' = "have_data"
    /\ UNCHANGED <<tool, rc, mesh, flat_mesh, data, counter, i, assigned, dropped, loc, log>>

\* main, lines 168-173 (H) and 175-180 (V).  The vectors h_vector and v_vector
\* are dereferenced unchecked.
addEmi_AddArray ==
    /\ tool = "addEmiDataToMesh"
    /\ pc = "have_data"
    /\ LET prop_name == IF loc.name_specifier = "H" THEN "TM_DD_H" ELSE "TM_DD_V"
       IN  IF Size(data) = 0
           THEN /\ rc' = -1 /\ pc' = "exit" /\ mesh' = mesh /\ loc' = loc
           ELSE IF hasProperty(mesh, prop_name)
           THEN /\ rc' = rc /\ pc' = "crash" /\ mesh' = mesh /\ loc' = loc
           ELSE /\ rc' = rc
                /\ mesh' = createNewPropertyVector(mesh, prop_name, data)
                /\ pc' = IF loc.name_specifier = "H" THEN "addFilesAsArrays" ELSE "write"
                /\ loc' = [loc EXCEPT !.name_specifier = "V"]
    /\ UNCHANGED <<tool, data_points, flat_mesh, data, counter, i, assigned, dropped, log>>

\* main, lines 182-191.
addEmi_Write ==
    /\ tool = "addEmiDataToMesh"
    /\ pc = "write"
    /\ log' = log \o <<Event("write", <<"mesh_out">>, 0, Size(mesh.elems))>>
    /\ mesh' = NoMesh
    /\ rc' = 0
    /\ pc' = "exit"
    /\ UNCHANGED <<tool, data_points, flat_mesh, data, counter, i, assigned, dropped, loc>>

addEmiDataToMesh ==
    \/ addEmi_ReadMesh
    \/ addFilesAsArrays_Read
    \/ addFilesAsArrays_Return
    \/ addEmi_AddArray
    \/ addEmi_Write

----------------------------------------------------------------------------
(* EmiData2PolyData *)

Dipoles == Vec(<<"H", "V">>)

Regions == Vec(<<"A", "B", "C">>)

\* getPointsFromFile, lines 42-55: the value it returns.
getPointsFromFile(file) ==
    ~(readResult(file) < 0 \/ Size(readPointsXY(file)) = 0)

\* main, lines 99-122.
Emi2Poly_ReadDem ==
    /\ tool = "EmiData2PolyData"
    /\ pc = "main"
    /\ \E dem_in \in {"not set", "set"} :
          IF dem_in = "not set"
          THEN /\ mesh' = NoMesh /\ rc' = rc /\ pc' = "points" /\ log' = log
          ELSE \E file \in {NoMesh, LineMesh, UnitSquare, TwoTriangles} :
                  /\ log' = log \o <<Event("read", <<"dem_in">>,
                                           IF file = NoMesh THEN -1 ELSE 0, Size(file.nodes))>>
                  /\ IF file = NoMesh
                     THEN /\ rc' = -2 /\ pc' = "exit" /\ mesh' = NoMesh
                     ELSE IF getDimension(file) # 2
                     THEN /\ rc' = -3 /\ pc' = "exit" /\ mesh' = NoMesh
                     ELSE /\ rc' = rc /\ pc' = "points" /\ mesh' = file
    /\ loc' = [j |-> 0, files |-> <<>>, points |-> <<>>, mapped |-> FALSE]
    /\ UNCHANGED <<tool, data_points, flat_mesh, data, counter, i, assigned, dropped>>

\* main, lines 125-148, for dipole j: the three calls of getPointsFromFile,
\* whose results are not looked at, the mapping and the .gml file.
Emi2Poly_Geometry ==
    /\ tool = "EmiData2PolyData"
    /\ pc = "points"
    /\ loc.j < Size(Dipoles)
    /\ \E fA, fB, fC \in EmiFiles :
          LET files  == Vec(<<fA, fB, fC>>)
              points == Concat(Concat(readPointsXY(fA), readPointsXY(fB)), readPointsXY(fC))
          IN  /\ loc' = [loc EXCEPT !.files = files, !.points = points,
                                    !.mapped = (mesh # NoMesh)]
              /\ log' = log \o
                    << Event("read", <<"csv", Regions[0], Dipoles[loc.j]>>,
                             readResult(fA), Size(readPointsXY(fA))),
                       Event("read", <<"csv", Regions[1], Dipoles[loc.j]>>,
                             readResult(fB), Size(readPointsXY(fB))),
                       Event("read", <<"csv", Regions[2], Dipoles[loc.j]>>,
                             readResult(fC), Size(readPointsXY(fC))),
                       Event("write", <<"poly_out", Dipoles[loc.j], "gml">>, 0, Size(points)) >>
    /\ pc' = "measurements"
    /\ UNCHANGED <<tool, rc, mesh, data_points, flat_mesh, data, counter, i, assigned, dropped>>

\* main, lines 150-155, for dipole j: the three calls of getMeasurements on
\* the same files and the text file.
Emi2Poly_Measurements ==
    /\ tool = "EmiData2PolyData"
    /\ pc = "measurements"
    /\ LET emi == Concat(Concat(readColumn3(loc.files[0]), readColumn3(loc.files[1])),
                         readColumn3(loc.files[2]))
       IN  log' = log \o
                << Event("read", <<"csv", Regions[0], Dipoles[loc.j]>>,
                         readResult(loc.files[0]), Size(readColumn3(loc.files[0]))),
                   Event("read", <<"csv", Regions[1], Dipoles[loc.j]>>,
                         readResult(loc.files[1]), Size(readColumn3(loc.files[1]))),
                   Event("read", <<"csv", Regions[2], Dipoles[loc.j]>>,
                         readResult(loc.files[2]), Size(readColumn3(loc.files[2]))),
                   Event("write", <<"poly_out", Dipoles[loc.j], "txt">>, 0, Size(emi)) >>
    /\ loc' = [loc EXCEPT !.j = @ + 1, !.files = <<>>, !.points = <<>>, !.mapped = FALSE]
    /\ pc' = "points"
    /\ UNCHANGED <<tool, rc, mesh, data_points, flat_mesh, data, counter, i, assigned, dropped>>

\* main, lines 158-163.  Lines 154-155 have deleted the points that
\* geo_objects took over at line 137; its destructor deletes them again when
\* main returns, so the return ends in the exit code 0 or abnormally.
Emi2Poly_Return ==
    /\ tool = "EmiData2PolyData"
    /\ pc = "points"
    /\ loc.j = Size(Dipoles)
    /\ mesh' = NoMesh
    /\ \/ rc' = 0 /\ pc' = "exit"
       \/ rc' = rc /\ pc' = "crash"
    /\ UNCHANGED <<tool, data_points, flat_mesh, data, counter, i, assigned, dropped, loc, log>>

EmiData2PolyData ==
    \/ Emi2Poly_ReadDem
    \/ Emi2Poly_Geometry
    \/ Emi2Poly_Measurements
    \/ Emi2Poly_Return

----------------------------------------------------------------------------
(* ErtData2Mesh *)

\* One data line of an ERT file: the column "x2/m", the points (E1, N1, H1)
\* and (E2, N2, H2), the depths "z1/m" and "z2/m", "rho/Ohmm " and "coverage".
ErtRow(x2, p1, p2, z1, z2) ==
    [x2 |-> x2, p1 |-> p1, p2 |-> p2, z1 |-> z1, z2 |-> z2, rho |-> 100 + x2, cov |-> 1]

ErtColumns == {"x2/m", "P1", "P2", "z1/m", "z2/m", "rho/Ohmm ", "coverage"}

\* Column i of a layer: electrode points that share no coordinate.
ErtP1(c) == <<10 * c, 20 * c + 1, 50 + 3 * c>>

ErtP2(c) == <<10 * c + 7, 20 * c + 8, 51 + 3 * c>>

\* Two layers of two quads.
ErtGood ==
    [open |-> TRUE, cols |-> ErtColumns,
     rows |-> << ErtRow(0, ErtP1(0), ErtP2(0), 0, 2), ErtRow(1, ErtP1(1), ErtP2(1), 0, 2),
                 ErtRow(0, ErtP1(0), ErtP2(0), 2, 5), ErtRow(1, ErtP1(1), ErtP2(1), 2, 5) >>]

\* One layer of three quads, without the column "rho/Ohmm ".
ErtWide ==
    [open |-> TRUE, cols |-> ErtColumns \ {"rho/Ohmm "},
     rows |-> << ErtRow(0, ErtP1(0), ErtP2(0), 0, 2), ErtRow(1, ErtP1(1), ErtP2(1), 0, 2),
                 ErtRow(2, ErtP1(2), ErtP2(2), 0, 2) >>]

\* A file that ends early: its last line is column 3 of a layer, in 2 lines.
ErtShort ==
    [open |-> TRUE, cols |-> ErtColumns,
     rows |-> << ErtRow(2, ErtP1(2), ErtP2(2), 0, 2), ErtRow(3, ErtP1(3), ErtP2(3), 0, 2) >>]

\* Point 1 of a line has the northing of point 2 of the next line.
ErtCoincident ==
    [open |-> TRUE, cols |-> ErtColumns,
     rows |-> << ErtRow(0, <<0, 8, 50>>, ErtP2(0), 0, 2),
                 ErtRow(1, ErtP1(1), <<17, 8, 54>>, 0, 2) >>]

\* The header line only.
ErtHeaderOnly == [open |-> TRUE, cols |-> ErtColumns, rows |-> <<>>]

\* No column "x2/m".
ErtNoX2 == [open |-> TRUE, cols |-> ErtColumns \ {"x2/m"}, rows |-> ErtGood.rows]

\* No column "z2/m".
ErtNoZ2 == [open |-> TRUE, cols |-> ErtColumns \ {"z2/m"}, rows |-> ErtGood.rows]

\* A file that cannot be opened.
ErtMissing == [open |-> FALSE, cols |-> {}, rows |-> <<>>]

ErtFiles ==
    {ErtGood, ErtWide, ErtShort, ErtCoincident, ErtHeaderOnly, ErtNoX2, ErtNoZ2, ErtMissing}

ErtField(row, col) ==
    CASE col = "x2/m" -> row.x2
      [] col = "P1" -> row.p1
      [] col = "P2" -> row.p2
      [] col = "z1/m" -> row.z1
      [] col = "z2/m" -> row.z2
      [] col = "rho/Ohmm " -> row.rho
      [] col = "coverage" -> row.cov

\* CsvInterface::readColumn / readPoints by column name: the value returned
\* (-1 when the file cannot be opened or has no such column) and the vector.
readColumn(file, col) ==
    IF ~file.open \/ col \notin file.cols
    THEN [e |-> -1, values |-> <<>>]
    ELSE [e |-> 0, values |-> [k \in 0..(Len(file.rows) - 1) |-> ErtField(file.rows[k + 1], col)]]

\* What std::vector::back() of an empty vector can yield when it does not end
\* the program: any value.
GarbageIds == {0, 6}

\* The option -s: not given, a file readRaster cannot read (nullptr), or a
\* raster of one elevation.
DemNotSet == [kind |-> "not set", height |-> 0]

NoRaster == [kind |-> "nullptr", height |-> 0]

Rasters == {[kind |-> "raster", height |-> 40]}

\* Raster::getValueAtPoint
getValueAtPoint(dem, node) == dem.height

\* getElevationCorrectionValues, lines 45-57: the corrections and the nodes
\* moved onto the raster.
getElevationCorrectionValues(dem, nodes) ==
    [elevation_correction |->
        [k \in DOMAIN nodes |-> nodes[k][3] - getValueAtPoint(dem, nodes[k])],
     nodes |->
        [k \in DOMAIN nodes |->
            <<nodes[k][1], nodes[k][2],
              nodes[k][3] - (nodes[k][3] - getValueAtPoint(dem, nodes[k]))>>]]

\* main, lines 83-85.  ids.back() of an empty vector is undefined: the program
\* ends there, or goes on with an arbitrary value.
Ert_ReadIds ==
    /\ tool = "ErtData2Mesh"
    /\ pc = "main"
    /\ \E file \in ErtFiles, dem \in {DemNotSet, NoRaster} \cup Rasters :
          LET col == readColumn(file, "x2/m")
              ids == col.values
          IN  /\ log' = log \o <<Event("read", <<"csv_in", "x2/m">>, col.e, Size(ids))>>
              /\ \E back \in (IF Size(ids) > 0
                              THEN {[crash |-> FALSE, value |-> ids[Size(ids) - 1]]}
                              ELSE {[crash |-> TRUE, value |-> 0]} \cup
                                   {[crash |-> FALSE, value |-> g] : g \in GarbageIds}) :
                    /\ pc' = IF back.crash THEN "crash" ELSE "read"
                    /\ loc' = [file |-> file, dem |-> dem, e |-> col.e,
                               n_nodes_per_layer |-> back.value + 1]
    /\ UNCHANGED <<tool, rc, mesh, data_points, flat_mesh, data, counter, i, assigned, dropped>>

\* main, lines 86-99.
Ert_ReadData ==
    /\ tool = "ErtData2Mesh"
    /\ pc = "read"
    /\ LET r1 == readColumn(loc.file, "P1")
           r2 == readColumn(loc.file, "P2")
           c1 == readColumn(loc.file, "z1/m")
           c2 == readColumn(loc.file, "z2/m")
       IN  /\ log' = log \o
                 << Event("read", <<"csv_in", "P1">>, r1.e, Size(r1.values)),
                    Event("read", <<"csv_in", "P2">>, r2.e, Size(r2.values)),
                    Event("read", <<"csv_in", "z1/m">>, c1.e, Size(c1.values)),
                    Event("read", <<"csv_in", "z2/m">>, c2.e, Size(c2.values)) >>
           /\ loc' = [file |-> loc.file, dem |-> loc.dem,
                      n_nodes_per_layer |-> loc.n_nodes_per_layer,
                      points1 |-> r1.values, points2 |-> r2.values,
                      z1 |-> c1.values, z2 |-> c2.values]
           /\ IF loc.e # 0 \/ r1.e # 0 \/ r2.e # 0 \/ c1.e # 0 \/ c2.e # 0
              THEN rc' = 1 /\ pc' = "exit"
              ELSE rc' = rc /\ pc' = "check"
    /\ UNCHANGED <<tool, mesh, data_points, flat_mesh, data, counter, i, assigned, dropped>>

\* main, lines 100-110.
Ert_Check ==
    /\ tool = "ErtData2Mesh"
    /\ pc = "check"
    /\ LET n_quads == Size(loc.points1)
       IN  IF \E k \in 1..(n_quads - 1) :
                  \/ loc.points1[k - 1][1] = loc.points2[k][1]
                  \/ loc.points1[k - 1][2] = loc.points2[k][2]
                  \/ loc.points1[k - 1][3] = loc.points2[k][3]
           THEN rc' = 1 /\ pc' = "exit"
           ELSE rc' = rc /\ pc' = "top"
    /\ UNCHANGED <<tool, mesh, data_points, flat_mesh, data, counter, i, assigned, dropped,
                   loc, log>>

\* The nodes of lines 118-120.
TopNodes(points1, points2, z1, n_nodes_per_layer) ==
    [k \in 0..n_nodes_per_layer |->
        IF k = 0
        THEN <<points1[0][1], points1[0][2], points1[0][3] - z1[0]>>
        ELSE <<points2[k - 1][1], points2[k - 1][2], points2[k - 1][3] - z1[k - 1]>>]

\* main, lines 112-128.  points1[0] and z1[0] are read, and points2[i] and
\* z1[i] for every i < n_nodes_per_layer (lines 118-120); only then is the
\* raster read (line 125), and dereferenced unchecked (line 126).
Ert_TopNodes ==
    /\ tool = "ErtData2Mesh"
    /\ pc = "top"
    /\ IF \/ Size(loc.points1) = 0
          \/ Size(loc.z1) = 0
          \/ loc.n_nodes_per_layer > Size(loc.points2)
          \/ loc.n_nodes_per_layer > Size(loc.z1)
       THEN /\ pc' = "crash"
            /\ loc' = loc
            /\ log' = log
       ELSE IF loc.dem = NoRaster
       THEN /\ pc' = "crash"
            /\ loc' = loc
            /\ log' = log \o <<Event("read", <<"dem_in">>, -1, 1)>>
       ELSE LET nodes == TopNodes(loc.points1, loc.points2, loc.z1, loc.n_nodes_per_layer)
                corr  == IF loc.dem = DemNotSet
                         THEN [elevation_correction |-> Filled(Size(nodes), 0),
                               nodes |-> nodes]
                         ELSE getElevationCorrectionValues(loc.dem, nodes)
            IN  /\ pc' = "layers"
                /\ loc' = [file |-> loc.file, dem |-> loc.dem,
                           n_nodes_per_layer |-> loc.n_nodes_per_layer,
                           points1 |-> loc.points1, points2 |-> loc.points2,
                           z1 |-> loc.z1, z2 |-> loc.z2,
                           nodes |-> corr.nodes,
                           elevation_correction |-> corr.elevation_correction,
                           quads |-> <<>>, materials |-> <<>>, mat_id |-> 0]
                /\ log' = IF loc.dem \in Rasters
                          THEN log \o <<Event("read", <<"dem_in">>, 0, 1)>>
                          ELSE log
    /\ UNCHANGED <<tool, rc, mesh, data_points, flat_mesh, data, counter, i, assigned, dropped>>

\* Lines 135-147 for the quads 0 .. n-1 of layer mat_id, from the state st of
\* nodes, quads and materials after line 134.
RECURSIVE LayerQuads(_, _, _)
LayerQuads(st, l, n) ==
    IF n = 0 THEN st
    ELSE LET prev     == LayerQuads(st, l, n - 1)
             k        == n - 1
             base_idx == l.mat_id * l.n_nodes_per_layer
             idx      == base_idx + k
             z        == l.points2[idx][3] - l.elevation_correction[k + 1] - l.z2[base_idx + k]
             node     == <<l.points2[idx][1], l.points2[idx][2], z>>
             quad     == Vec(<< base_idx + l.mat_id + k,
                                Size(prev.nodes) - 1,
                                Size(prev.nodes),
                                base_idx + l.mat_id + k + 1 >>)
         IN  [nodes |-> PushBack(prev.nodes, node),
              quads |-> PushBack(prev.quads, quad),
              materials |-> PushBack(prev.materials, l.mat_id)]

\* main, lines 129-148, one layer.
Ert_Layer ==
    /\ tool = "ErtData2Mesh"
    /\ pc = "layers"
    /\ loc.mat_id < Size(loc.points1) \div loc.n_nodes_per_layer
    /\ LET base_idx == loc.mat_id * loc.n_nodes_per_layer
           z     == loc.points1[base_idx][3] - loc.elevation_correction[0] - loc.z2[base_idx]
           first == <<loc.points1[base_idx][1], loc.points1[base_idx][2], z>>
           st    == LayerQuads([nodes |-> PushBack(loc.nodes, first),
                                quads |-> loc.quads, materials |-> loc.materials],
                               loc, loc.n_nodes_per_layer)
       IN  loc' = [loc EXCEPT !.nodes = st.nodes, !.quads = st.quads,
                              !.materials = st.materials, !.mat_id = @ + 1]
    /\ UNCHANGED <<tool, pc, rc, mesh, data_points, flat_mesh, data, counter, i, assigned,
                   dropped, log>>

\* main, lines 150-187.
Ert_Write ==
    /\ tool = "ErtData2Mesh"
    /\ pc = "layers"
    /\ loc.mat_id = Size(loc.points1) \div loc.n_nodes_per_layer
    /\ LET resistance == readColumn(loc.file, "rho/Ohmm ")
           coverage   == readColumn(loc.file, "coverage")
       IN  /\ mesh' = [nodes |-> loc.nodes, elems |-> loc.quads,
                       props |-> { <<"MaterialIDs", loc.materials>>,
                                   <<"Resistance", resistance.values>>,
                                   <<"Coverage", coverage.values>> }]
           /\ log' = log \o
                 << Event("read", <<"csv_in", "rho/Ohmm ">>, resistance.e,
                          Size(resistance.values)),
                    Event("read", <<"csv_in", "coverage">>, coverage.e, Size(coverage.values)),
                    Event("write", <<"mesh_out">>, 0, Size(loc.quads)) >>
    /\ rc' = 0
    /\ pc' = "exit"
    /\ UNCHANGED <<tool, data_points, flat_mesh, data, counter, i, assigned, dropped, loc>>

ErtData2Mesh ==
    \/ Ert_ReadIds
    \/ Ert_ReadData
    \/ Ert_Check
    \/ Ert_TopNodes
    \/ Ert_Layer
    \/ Ert_Write

----------------------------------------------------------------------------
(* makeBuildings *)

\* A geometry file.  read: XmlGmlInterface::readFile succeeds.  pnts: the
\* point vector, a point being <<x, y, z>> with its position as id.  plys: the
\* polylines, each a vector of point ids; has_plys is false when the geometry
\* has no polyline vector (getPolylineVec returns nullptr).  sfcs: the
\* surfaces, each a vector of triangles <<a, b, c>> of point ids; has_sfcs
\* likewise.
GeoUnreadable ==
    [read |-> FALSE, pnts |-> <<>>, has_plys |-> FALSE, plys |-> <<>>,
     has_sfcs |-> FALSE, sfcs |-> <<>>]

\* The outline of a unit square and its two triangles.
GeoSquare ==
    [read |-> TRUE,
     pnts |-> Vec(<<Node2(0, 0), Node2(4, 0), Node2(4, 4), Node2(0, 4)>>),
     has_plys |-> TRUE, plys |-> Vec(<<Vec(<<0, 1, 2, 3, 0>>)>>),
     has_sfcs |-> TRUE, sfcs |-> Vec(<<Vec(<< <<0, 1, 2>>, <<0, 2, 3>> >>)>>)]

\* The outline without surfaces.
GeoOutline ==
    [read |-> TRUE,
     pnts |-> GeoSquare.pnts,
     has_plys |-> TRUE, plys |-> GeoSquare.plys,
     has_sfcs |-> FALSE, sfcs |-> <<>>]

\* Points only.
GeoPoints ==
    [read |-> TRUE,
     pnts |-> GeoSquare.pnts,
     has_plys |-> FALSE, plys |-> <<>>,
     has_sfcs |-> FALSE, sfcs |-> <<>>]

\* A triangle at the elevation 1 with its outline, and a wall line beside it.
GeoYard ==
    [read |-> TRUE,
     pnts |-> Vec(<< <<0, 0, 1>>, <<4, 0, 1>>, <<0, 4, 1>>, <<8, 0, 2>>, <<8, 4, 2>> >>),
     has_plys |-> TRUE, plys |-> Vec(<<Vec(<<0, 1, 2, 0>>), Vec(<<3, 4>>)>>),
     has_sfcs |-> TRUE, sfcs |-> Vec(<<Vec(<< <<0, 1, 2>> >>)>>)]

GeoFiles == {GeoUnreadable, GeoSquare, GeoOutline, GeoPoints, GeoYard}

Heights == {3, -2}

\* copyPolylinesVector, lines 28-45: every polyline again, point id by point id.
copyPolylinesVector(polylines) ==
    [q \in DOMAIN polylines |-> [j \in DOMAIN polylines[q] |-> polylines[q][j]]]

\* GeoLib::Surface::addTriangle: a triangle with two equal point ids is not
\* added.
addTriangle(sfc, a, b, c) ==
    IF a = b \/ a = c \/ b = c THEN sfc ELSE PushBack(sfc, <<a, b, c>>)

\* Lines 60-65 and 113-119: the first k triangles of a surface added to a new
\* surface, their point ids raised by shift.
RECURSIVE CopyTriangles(_, _, _)
CopyTriangles(sfc, shift, k) ==
    IF k = 0 THEN <<>>
    ELSE LET t == sfc[k - 1]
         IN  addTriangle(CopyTriangles(sfc, shift, k - 1),
                         t[1] + shift, t[2] + shift, t[3] + shift)

\* copySurfacesVector, lines 47-68.
copySurfacesVector(surfaces) ==
    [q \in DOMAIN surfaces |-> CopyTriangles(surfaces[q], 0, Size(surfaces[q]))]

\* A wall of one triangle per segment.
RECURSIVE WallTrianglesHalf(_, _, _)
WallTrianglesHalf(p, n_pnts, k) ==
    IF k <= 0 THEN <<>>
    ELSE addTriangle(WallTrianglesHalf(p, n_pnts, k - 1), p[k], p[k - 1], p[k - 1] + n_pnts)

\* Lines 101-105: the surface after the segments 1 .. k of polyline p.
RECURSIVE WallTriangles(_, _, _)
WallTriangles(p, n_pnts, k) ==
    IF k <= 0 THEN <<>>
    ELSE addTriangle(addTriangle(WallTriangles(p, n_pnts, k - 1),
                                 p[k], p[k - 1], p[k - 1] + n_pnts),
                     p[k], p[k - 1] + n_pnts, p[k] + n_pnts)

\* makeBuildings, lines 79-121: the points, polylines and surfaces handed to
\* geo_objects at lines 123-125.
makeBuildings(geo, height) ==
    LET n_pnts == Size(geo.pnts)
        copies == [k \in DOMAIN geo.pnts |-> geo.pnts[k]]
        raised == [k \in DOMAIN geo.pnts |->
                      <<geo.pnts[k][1], geo.pnts[k][2], geo.pnts[k][3] + height>>]
        walls  == [q \in DOMAIN geo.plys |->
                      WallTriangles(geo.plys[q], n_pnts, Size(geo.plys[q]) - 1)]
        roofs  == [j \in DOMAIN geo.sfcs |->
                      CopyTriangles(geo.sfcs[j], n_pnts, Size(geo.sfcs[j]))]
    IN  [pnts |-> Concat(copies, raised),
         plys |-> copyPolylinesVector(geo.plys),
         sfcs |-> Concat(Concat(copySurfacesVector(geo.sfcs), walls), roofs)]

\* main, lines 149-160.
Mkb_Read ==
    /\ tool = "makeBuildings"
    /\ pc = "main"
    /\ \E geo \in GeoFiles, height \in Heights :
          /\ log' = log \o <<Event("read", <<"geo_in">>,
                                   IF geo.read THEN 0 ELSE -1, Size(geo.pnts))>>
          /\ loc' = [geo |-> geo, height |-> height,
                      out |-> [pnts |-> <<>>, plys |-> <<>>, sfcs |-> <<>>]]
          /\ IF ~geo.read
             THEN rc' = 1 /\ pc' = "exit"
             ELSE rc' = rc /\ pc' = "makeBuildings"
    /\ UNCHANGED <<tool, mesh, data_points, flat_mesh, data, counter, i, assigned, dropped>>

\* makeBuildings, lines 70-126: plys->size() and sfcs->size() are taken of the
\* vectors the geometry has, unchecked.
Mkb_makeBuildings ==
    /\ tool = "makeBuildings"
    /\ pc = "makeBuildings"
    /\ IF ~loc.geo.has_plys \/ ~loc.geo.has_sfcs
       THEN pc' = "crash" /\ loc' = loc
       ELSE /\ pc' = "write"
            /\ loc' = [loc EXCEPT !.out = makeBuildings(loc.geo, loc.height)]
    /\ UNCHANGED <<tool, rc, mesh, data_points, flat_mesh, data, counter, i, assigned, dropped,
                   log>>

\* main, lines 164-167.
Mkb_Write ==
    /\ tool = "makeBuildings"
    /\ pc = "write"
    /\ log' = log \o <<Event("write", <<"geo_out">>, 0, Size(loc.out.pnts))>>
    /\ rc' = 0
    /\ pc' = "exit"
    /\ UNCHANGED <<tool, mesh, data_points, flat_mesh, data, counter, i, assigned, dropped, loc>>

makeBuildingsTool ==
    \/ Mkb_Read
    \/ Mkb_makeBuildings
    \/ Mkb_Write

----------------------------------------------------------------------------
(* addScalarArrayTimeSeries *)

\* A field of a line of the CSV file: a number, the text NaN, or other text.
Num(v) == [kind |-> "number", value |-> v]

NaNField == [kind |-> "NaN", value |-> 0]

Text == [kind |-> "text", value |-> 0]

\* A line: its first field and the values after it.
TsLine(values) == <<Text>> \o values

\* The CSV file: the lines it has, each ended by a newline.
TsCsvMissing == [open |-> FALSE, lines |-> <<>>]

\* Two time steps of four lines of one value and an empty line each.
TsCsvFour ==
    [open |-> TRUE,
     lines |-> << TsLine(<<Num(1)>>), TsLine(<<Num(2)>>), TsLine(<<Num(3)>>),
                  TsLine(<<Num(9)>>), <<>>,
                  TsLine(<<Num(4)>>), TsLine(<<NaNField>>), TsLine(<<Num(6)>>),
                  TsLine(<<Num(9)>>), <<>> >>]

\* Two time steps of one value per cell of a mesh of two cells, an empty line
\* between them.
TsCsvPerCell ==
    [open |-> TRUE,
     lines |-> << TsLine(<<Num(1)>>), TsLine(<<Num(2)>>), <<>>,
                  TsLine(<<Num(3)>>), TsLine(<<Num(4)>>) >>]

\* One time step of three lines of two values and an empty line.
TsCsvWide ==
    [open |-> TRUE,
     lines |-> << TsLine(<<Num(1), Num(2)>>), TsLine(<<Num(3), Num(4)>>),
                  TsLine(<<Num(9), Num(9)>>), <<>> >>]

\* A value that is no number.
TsCsvText ==
    [open |-> TRUE,
     lines |-> << TsLine(<<Num(1)>>), TsLine(<<Text>>), TsLine(<<Num(3)>>),
                  TsLine(<<Num(9)>>), <<>> >>]

TsCsvEmpty == [open |-> TRUE, lines |-> <<>>]

\* Two time steps of one line of two values, an empty line between them.
TsCsvOneRow ==
    [open |-> TRUE,
     lines |-> << TsLine(<<Num(1), Num(2)>>), <<>>, TsLine(<<Num(3), Num(4)>>) >>]

\* One time step of two lines of four values and an empty line.
TsCsvFan ==
    [open |-> TRUE,
     lines |-> << TsLine(<<Num(1), Num(2), Num(3), Num(4)>>),
                  TsLine(<<Num(5), Num(6), Num(7), Num(8)>>), <<>> >>]

\* Two time steps of two lines of four values, each followed by the line
\* that is read and not used; an empty line between the time steps.
TsCsvFanTwo ==
    [open |-> TRUE,
     lines |-> << TsLine(<<Num(1), Num(2), Num(3), Num(4)>>),
                  TsLine(<<Num(5), Num(6), Num(7), Num(8)>>), <<>>, <<>>,
                  TsLine(<<Num(1), Num(2), Num(3), Num(4)>>),
                  TsLine(<<Num(5), Num(6), Num(7), Num(8)>>), <<>> >>]

TsCsvFiles ==
    {TsCsvMissing, TsCsvFour, TsCsvPerCell, TsCsvOneRow, TsCsvWide, TsCsvText, TsCsvEmpty,
     TsCsvFan, TsCsvFanTwo}

\* BaseLib::extractBaseNameWithoutExtension(csv_in.getValue())
TsPropName == "csv"

\* The two triangles as one row of cells.
TwoTrianglesOneRow ==
    [TwoTriangles EXCEPT !.props = {<<"MaterialIDs", Vec(<<0, 0>>)>>}]

\* Four triangles around a centre node, one row of cells: more cells than
\* the rows of a time step leave room for in an array of one entry per node.
Fan ==
    [nodes |-> Vec(<<Node2(0, 0), Node2(4, 0), Node2(4, 4), Node2(0, 4), Node2(2, 2)>>),
     elems |-> Vec(<<Vec(<<0, 1, 4>>), Vec(<<1, 2, 4>>), Vec(<<2, 3, 4>>), Vec(<<3, 0, 4>>)>>),
     props |-> {<<"MaterialIDs", Vec(<<0, 0, 0, 0>>)>>}]

\* A unit square whose material id is -1.
SquareNoMaterial == [UnitSquare EXCEPT !.props = {<<"MaterialIDs", Vec(<<-1>>)>>}]

\* The two squares with an array of the name of the CSV file.
TwoSquaresDone ==
    [TwoSquares EXCEPT !.props = @ \cup {<<TsPropName, Filled(6, 0)>>}]

\* The file given with -b: not given, or what readVTUFile finds there.
TsBases ==
    {[set |-> FALSE, file |-> NoMesh]}
    \cup {[set |-> TRUE, file |-> m] :
             m \in {NoMesh, TwoSquares, TwoTrianglesOneRow, UnitSquare, SquareNoMaterial,
                    Fan}}

\* The files <output><t>.vtu on disk, by t.
TsNoFiles == <<>>

\* Only <output>1.vtu exists.
TsLaterFile == [t \in {1} |-> TwoSquares]

TsDisks ==
    {TsNoFiles,
     TsLaterFile,
     Vec(<<TwoSquares, TwoSquares>>),
     Vec(<<TwoSquares>>),
     Vec(<<TwoSquaresDone>>),
     Vec(<<UnitSquare>>)}

\* What the user types at the question whether to overwrite.
Answers == {"y", "Y", "n", "N", "yes"}

DiskAt(disk, t) == IF t \in DOMAIN disk THEN disk[t] ELSE NoMesh

\* BaseLib::IsFileExisting
IsFileExisting(disk, t) == DiskAt(disk, t) # NoMesh

\* vtu.writeToFile(output_name)
writeToFile(disk, t, m) ==
    [k \in DOMAIN disk \cup {t} |-> IF k = t THEN m ELSE disk[k]]

getPropertyVector(m, name) == (CHOOSE p \in m.props : p[1] = name)[2]

\* *std::max_element(materials->cbegin(), materials->cend())
max_element(v) == CHOOSE x \in {v[k] : k \in DOMAIN v} : \A k \in DOMAIN v : v[k] <= x

\* getline(in, line) on the lines left: the line read and the lines after it.
getline(in) ==
    IF Len(in) = 0 THEN [ok |-> FALSE, line |-> <<>>, in |-> in]
    ELSE [ok |-> TRUE, line |-> Head(in), in |-> Tail(in)]

\* Lines 213-222: the values of a line written to prop from idx_cnt on.
RowValues(prop, line, idx_cnt) ==
    [k \in DOMAIN prop |->
        IF k >= idx_cnt /\ k < idx_cnt + Len(line) - 1
        THEN LET f == line[k - idx_cnt + 2]
             IN  IF f.kind = "NaN" THEN 0 ELSE f.value
        ELSE prop[k]]

\* (*prop)[idx_cnt++] = ... for each value of the line
setPropertyVector(m, name, values) ==
    [m EXCEPT !.props = {p \in @ : p[1] # name} \cup {<<name, values>>}]

\* main, lines 151-188.
Ts_Start ==
    /\ tool = "addScalarArrayTimeSeries"
    /\ pc = "main"
    /\ \E base \in TsBases, csv \in TsCsvFiles, disk \in TsDisks :
          LET st == [base_set |-> base.set, in |-> csv.lines, line |-> <<>>,
                     disk |-> disk, n_rows |-> -1, file_counter |-> 0,
                     overwrite |-> FALSE, input |-> "", row |-> 0,
                     base |-> base.file, csv |-> csv, disk_in |-> disk,
                     corrupt |-> FALSE]
              has_mat == hasProperty(base.file, "MaterialIDs")
          IN  IF base.set /\ base.file = NoMesh
              THEN /\ rc' = -1 /\ pc' = "exit" /\ mesh' = mesh /\ loc' = st
                   /\ log' = log \o <<Event("read", <<"base">>, -1, 0)>>
              ELSE IF base.set /\ ~has_mat
              THEN /\ rc' = rc /\ pc' = "crash" /\ mesh' = base.file /\ loc' = st
                   /\ log' = log \o <<Event("read", <<"base">>, 0, Size(base.file.elems))>>
              ELSE /\ mesh' = IF base.set THEN base.file ELSE mesh
                   /\ loc' = IF base.set
                             THEN [st EXCEPT !.n_rows =
                                     max_element(getPropertyVector(base.file, "MaterialIDs")) + 1]
                             ELSE st
                   /\ log' = log \o (IF base.set
                                     THEN <<Event("read", <<"base">>, 0, Size(base.file.elems))>>
                                     ELSE <<>>)
                                 \o <<Event("read", <<"csv">>, IF csv.open THEN 0 ELSE -1,
                                            Len(csv.lines))>>
                   /\ IF ~csv.open
                      THEN rc' = -2 /\ pc' = "exit"
                      ELSE rc' = rc /\ pc' = "loop"
    /\ UNCHANGED <<tool, data_points, flat_mesh, data, counter, i, assigned, dropped>>

\* main, lines 189-204, and lines 244-249 when no line is left.
Ts_Step ==
    /\ tool = "addScalarArrayTimeSeries"
    /\ pc = "loop"
    /\ LET got == getline(loc.in)
           st == [loc EXCEPT !.line = got.line, !.in = got.in, !.row = 0]
           m == IF loc.base_set THEN mesh ELSE DiskAt(loc.disk, loc.file_counter)
           \* line 193: the mesh of the time step has been read
           rd == IF loc.base_set THEN <<>>
                 ELSE <<Event("read", <<"output", loc.file_counter>>, 0, Size(m.elems))>>
           st2 == IF loc.base_set THEN st
                  ELSE [st EXCEPT !.n_rows =
                          max_element(getPropertyVector(m, "MaterialIDs")) + 1]
       IN  IF ~got.ok
           THEN /\ rc' = 0 /\ pc' = "exit" /\ mesh' = mesh /\ log' = log
                /\ loc' = [loc EXCEPT !.line = got.line, !.in = got.in]
           ELSE IF ~loc.base_set /\ m = NoMesh
           THEN /\ rc' = -6 /\ pc' = "exit" /\ mesh' = NoMesh /\ loc' = st
                /\ log' = log \o <<Event("read", <<"output", loc.file_counter>>, -1, 0)>>
           ELSE IF \/ ~loc.base_set /\ ~hasProperty(m, "MaterialIDs")
                   \/ hasProperty(m, TsPropName)
           THEN /\ rc' = rc /\ pc' = "crash" /\ mesh' = m /\ loc' = st /\ log' = log \o rd
           ELSE /\ rc' = rc
                /\ mesh' = createNewPropertyVector(m, TsPropName, Filled(Size(m.nodes), 0))
                /\ loc' = st2
                /\ log' = log \o rd
                /\ pc' = IF 0 <= st2.n_rows THEN "rows" ELSE "write"
    /\ UNCHANGED <<tool, data_points, flat_mesh, data, counter, i, assigned, dropped>>

\* main, lines 206-224: one pass of the loop over the lines of a time step.
Ts_Row ==
    /\ tool = "addScalarArrayTimeSeries"
    /\ pc = "rows"
    /\ LET n_cols == Len(loc.line)
           idx_cnt == loc.row * (n_cols - 1)
           prop == getPropertyVector(mesh, TsPropName)
           got == getline(loc.in)
       IN  IF loc.n_rows = 0
           THEN /\ rc' = rc /\ pc' = "crash" /\ mesh' = mesh /\ loc' = loc
           ELSE IF n_cols # (Size(mesh.elems) \div loc.n_rows) + 1
           THEN /\ rc' = -3 /\ pc' = "exit" /\ mesh' = mesh /\ loc' = loc
           ELSE IF \E k \in 2..n_cols : loc.line[k].kind = "text"
           THEN /\ rc' = rc /\ pc' = "crash" /\ mesh' = mesh /\ loc' = loc
           ELSE \* A value written beyond the end of the array (the array has
                \* one entry per node, line 204): the program ends abnormally
                \* here, or goes on with the values that fit and with memory
                \* next to the array overwritten; from then on it may end
                \* abnormally at any step (Ts_Abort), and arrays of the mesh
                \* may be gone when the rows are done.
                LET oob == idx_cnt + n_cols - 1 > Size(prop)
                    last == loc.row + 1 > loc.n_rows
                    written == setPropertyVector(mesh, TsPropName,
                                                 RowValues(prop, loc.line, idx_cnt))
                IN  \/ /\ oob
                       /\ rc' = rc /\ pc' = "crash" /\ mesh' = mesh /\ loc' = loc
                    \/ /\ rc' = rc
                       /\ \E kept \in (IF last /\ (oob \/ loc.corrupt)
                                        THEN SUBSET written.props
                                        ELSE {written.props}) :
                             mesh' = [written EXCEPT !.props = kept]
                       /\ loc' = [loc EXCEPT !.line = got.line, !.in = got.in,
                                             !.row = @ + 1, !.corrupt = @ \/ oob]
                       /\ pc' = IF last THEN "write" ELSE "rows"
    /\ UNCHANGED <<tool, data_points, flat_mesh, data, counter, i, assigned, dropped, log>>

\* main, lines 235-241: the state after the mesh is written.
TsWritten(st, m) ==
    LET got == getline(st.in)
    IN  [st EXCEPT !.disk = writeToFile(st.disk, st.file_counter, m),
                   !.file_counter = @ + 1,
                   !.overwrite = TRUE,
                   !.line = got.line, !.in = got.in]

\* main, lines 226-241, up to the question of overwriteFiles.
Ts_Write ==
    /\ tool = "addScalarArrayTimeSeries"
    /\ pc = "write"
    /\ IF ~loc.overwrite /\ IsFileExisting(loc.disk, loc.file_counter)
       THEN /\ pc' = "prompt"
            /\ loc' = [loc EXCEPT !.input = ""]
            /\ log' = log
       ELSE /\ pc' = "loop"
            /\ loc' = TsWritten(loc, mesh)
            /\ log' = log \o <<Event("write", <<"output", loc.file_counter>>, 0,
                                     Size(mesh.elems))>>
    /\ UNCHANGED <<tool, rc, mesh, data_points, flat_mesh, data, counter, i, assigned, dropped>>

\* overwriteFiles, lines 116-122, and main, lines 232-241: an answer is read.
Ts_Answer ==
    /\ tool = "addScalarArrayTimeSeries"
    /\ pc = "prompt"
    /\ \E input \in Answers :
          IF input \in {"y", "Y"}
          THEN /\ rc' = rc /\ pc' = "loop"
               /\ loc' = TsWritten([loc EXCEPT !.input = input], mesh)
               /\ log' = log \o <<Event("write", <<"output", loc.file_counter>>, 0,
                                        Size(mesh.elems))>>
          ELSE IF input \in {"n", "N"}
          THEN /\ rc' = -7 /\ pc' = "exit"
               /\ loc' = [loc EXCEPT !.input = input]
               /\ log' = log
          ELSE /\ rc' = rc /\ pc' = "prompt"
               /\ loc' = [loc EXCEPT !.input = input]
               /\ log' = log
    /\ UNCHANGED <<tool, mesh, data_points, flat_mesh, data, counter, i, assigned, dropped>>

\* After a write beyond the end of an array (lines 219-221) the program may
\* end abnormally at any later allocation or release of memory.
Ts_Abort ==
    /\ tool = "addScalarArrayTimeSeries"
    /\ pc \in {"loop", "rows", "write", "prompt"}
    /\ loc.corrupt
    /\ pc' = "crash"
    /\ UNCHANGED <<tool, rc, mesh, data_points, flat_mesh, data, counter, i, assigned, dropped,
                   loc, log>>

addScalarArrayTimeSeries ==
    \/ Ts_Start
    \/ Ts_Step
    \/ Ts_Row
    \/ Ts_Write
    \/ Ts_Answer
    \/ Ts_Abort

----------------------------------------------------------------------------
(* Notions the properties are stated in *)

\* Twice the signed area of the triangle a, b, p in the x-y plane.
Cross2(a, b, p) == (b[1] - a[1]) * (p[2] - a[2]) - (b[2] - a[2]) * (p[1] - a[1])

\* The edges of cell c of mesh m, as pairs of node ids.
CellEdges(m, c) ==
    LET n == Size(m.elems[c])
    IN  {<<m.elems[c][k], m.elems[c][(k + 1) % n]>> : k \in 0..(n - 1)}

\* p lies in the interior of the (convex) planar footprint of cell c.
StrictlyInside(m, c, p) ==
    \/ \A e \in CellEdges(m, c) : Cross2(m.nodes[e[1]], m.nodes[e[2]], p) > 0
    \/ \A e \in CellEdges(m, c) : Cross2(m.nodes[e[1]], m.nodes[e[2]], p) < 0

\* p lies in the closed planar footprint of cell c.
InFootprint(m, c, p) ==
    \/ \A e \in CellEdges(m, c) : Cross2(m.nodes[e[1]], m.nodes[e[2]], p) >= 0
    \/ \A e \in CellEdges(m, c) : Cross2(m.nodes[e[1]], m.nodes[e[2]], p) <= 0

\* p lies on the segment from a to b, but is neither a nor b.
OnOpenSegment(a, b, p) ==
    /\ Cross2(a, b, p) = 0
    /\ (p[1] - a[1]) * (b[1] - p[1]) + (p[2] - a[2]) * (b[2] - p[2]) > 0

\* Cells c and d share an edge and p lies on it.
OnSharedEdge(m, c, d, p) ==
    \E e \in CellEdges(m, c) :
        /\ (e \in CellEdges(m, d) \/ <<e[2], e[1]>> \in CellEdges(m, d))
        /\ OnOpenSegment(m.nodes[e[1]], m.nodes[e[2]], p)

\* The sum of the values of the samples with the indices in S.
RECURSIVE SumValues(_, _)
SumValues(pts, S) ==
    IF S = {} THEN 0
    ELSE LET j == CHOOSE k \in S : TRUE
         IN  pts[j][3] + SumValues(pts, S \ {j})

\* The arithmetic mean of the values of the samples with the indices in S.
MeanOf(pts, S) == Frac(SumValues(pts, S), Cardinality(S))

Cells(m) == DOMAIN m.elems

----------------------------------------------------------------------------
(* Properties of getDataFromCSV *)

\* C1: when getDataFromCSV has returned, its array has one entry per cell of
\* the mesh, and entry c is the sum of the values of the samples that were
\* added to cell c divided by their number, or 0 when there is none.
C1_AveragePerCell ==
    (tool = "getDataFromCSV" /\ pc = "gd_done") =>
        /\ DOMAIN data = 0..(Size(mesh.elems) - 1)
        /\ \A c \in Cells(mesh) :
              LET S == {j \in DOMAIN data_points : assigned[j] = c}
              IN  data[c] = IF S # {} THEN MeanOf(data_points, S) ELSE Zero

C1_Witness ==
    /\ tool = "getDataFromCSV" /\ pc = "gd_done"
    /\ Size(mesh.elems) = 2
    /\ \E c \in Cells(mesh) :
          /\ Cardinality({j \in DOMAIN data_points : assigned[j] = c}) = 2
          /\ data[c] = Frac(15, 1)
    /\ \E c \in Cells(mesh) : counter[c] = 0 /\ data[c] = Zero

\* C2: when getDataFromCSV has returned, for every cell c and the set S of
\* samples strictly inside the footprint of c, no other sample being in the
\* footprint of c, the value of c is the mean of the values of S.
C2_MeanOfSamplesInside ==
    (tool = "getDataFromCSV" /\ pc = "gd_done") =>
        \A c \in Cells(mesh) :
            LET S == {j \in DOMAIN data_points : StrictlyInside(mesh, c, data_points[j])}
                T == {j \in DOMAIN data_points : InFootprint(mesh, c, data_points[j])}
            IN  (S # {} /\ T = S) => data[c] = MeanOf(data_points, S)

\* C3: a sample on the edge shared by two cells adds 1 to the counter of
\* exactly one of the two and leaves the other counter as it was.
C3_SharedEdgeExactlyOne ==
    [][(pc = "gd_loop" /\ i' = i + 1) =>
          \A c, d \in Cells(mesh) :
              (c # d /\ OnSharedEdge(mesh, c, d, data_points[i]))
                  => (counter'[c] - counter[c]) + (counter'[d] - counter[d]) = 1]_vars

\* C4: after any prefix of i samples the counters of all cells and the number
\* of dropped samples add up to i; each counter is the number of samples added
\* to its cell; and a sample outside the footprint of every cell was added to
\* none.
C4_AssignedPlusDropped ==
    (pc \in {"gd_loop", "gd_avg", "gd_done"}) =>
        /\ SumVec(counter) + dropped = i
        /\ dropped = Cardinality({j \in DOMAIN assigned : assigned[j] = NoCell})
        /\ \A c \in Cells(mesh) :
              counter[c] = Cardinality({j \in DOMAIN assigned : assigned[j] = c})
        /\ \A j \in DOMAIN assigned :
              (\A c \in Cells(mesh) : ~InFootprint(mesh, c, data_points[j]))
                  => assigned[j] = NoCell

C4_Witness ==
    /\ pc = "gd_done"
    /\ i = 3
    /\ dropped = 1
    /\ SumVec(counter) = 2
    /\ \E j \in DOMAIN assigned :
          /\ data_points[j] = <<20, 20, 999>>
          /\ assigned[j] = NoCell

\* C5: for every mesh that has a node, getDataFromCSV with no samples does not
\* fail, and the array it returns has one entry per cell, each 0.
C5_EmptySamples ==
    (tool = "getDataFromCSV" /\ Size(data_points) = 0 /\ Size(mesh.nodes) > 0) =>
        /\ pc \in {"gd_start", "gd_loop", "gd_avg", "gd_done"}
        /\ pc \in {"gd_avg", "gd_done"} => data = Filled(Size(mesh.elems), Zero)

C5_Witness ==
    /\ tool = "getDataFromCSV" /\ pc = "gd_done"
    /\ Size(data_points) = 0
    /\ Size(mesh.elems) = 2
    /\ data = Filled(2, Zero)

\* C6: no step of getDataFromCSV changes the mesh it was given, and when it
\* has returned the projected copy is gone.
C6_MeshNotMutated ==
    [][/\ mesh' = mesh
       /\ pc' = "gd_done" => flat_mesh' = NoMesh]_vars

C6_Witness ==
    /\ tool = "getDataFromCSV" /\ pc = "gd_done"
    /\ flat_mesh = NoMesh
    /\ \E n \in DOMAIN mesh.nodes : mesh.nodes[n][3] # 0
    /\ mesh.props # {}
    /\ SumVec(counter) > 0

\* The mesh file addEmiDataToMesh has read holds a mesh without cells or
\* without nodes.
ReadInvalidMesh ==
    /\ tool = "addEmiDataToMesh"
    /\ pc # "main"
    /\ loc.mesh_in # NoMesh
    /\ (Size(loc.mesh_in.elems) = 0 \/ Size(loc.mesh_in.nodes) = 0)

\* C7: when the mesh that was read has no cells or no nodes, addEmiDataToMesh
\* has ended with the code -3 of an invalid mesh right after reading it: no
\* flat mesh and no grid was built, no sample was looked up, no array was
\* returned, no EMI file was read and nothing was written; and getDataFromCSV
\* is never at work on a mesh without cells or without nodes.
C7_InvalidMeshRejected ==
    /\ ReadInvalidMesh =>
          /\ pc = "exit" /\ rc = -3
          /\ flat_mesh = NoMesh /\ data = <<>> /\ counter = <<>>
          /\ i = 0 /\ assigned = <<>> /\ dropped = 0
          /\ Len(log) = 1 /\ log[1].op = "read" /\ log[1].file = <<"mesh_in">>
    /\ pc \in {"gd_start", "gd_loop", "gd_avg", "gd_done"} =>
          Size(mesh.elems) > 0 /\ Size(mesh.nodes) > 0

\* A file of two nodes and no cell has been read and refused.
C7_Witness ==
    /\ ReadInvalidMesh
    /\ loc.mesh_in = NodesOnly
    /\ pc = "exit"
    /\ rc = -3

\* What C8 and C9 call a failed read: the file was missing (e < 0), had rows
\* that could not be read (e > 0, the number of rows skipped) or held no data
\* (n = 0).  The guards the tools themselves apply are in their actions.
FailedRead(ev) == ev.op = "read" /\ (ev.e # 0 \/ ev.n = 0)

\* C8: once a tool has read a file that is missing, malformed or without
\* data, it writes no file afterwards and, when it exits, exits with a code
\* other than 0.
C8_FailedReadAborts ==
    \A k \in 1..Len(log) :
        FailedRead(log[k]) =>
            /\ \A j \in (k + 1)..Len(log) : log[j].op # "write"
            /\ pc = "exit" => rc # 0

\* C9: a tool that has exited returned 0 or a negative code: 0 if and only if
\* no read failed and it wrote its output, a negative code otherwise.
C9_ExitCodes ==
    pc = "exit" =>
        /\ rc <= 0
        /\ rc = 0 <=> /\ \A k \in 1..Len(log) : ~FailedRead(log[k])
                      /\ \E k \in 1..Len(log) : log[k].op = "write"

\* C10: no tool ends abnormally: an input error never leads to the last
\* element of an empty vector being read, an absent property vector being
\* dereferenced, a division by zero or an index out of bounds.
C10_NoCrash == pc # "crash"

\* C11: for the unit square with the nodes (0,0), (1,0), (1,1), (0,1) in this
\* order and the samples (0.25, 0.25, 10), (0.75, 0.75, 20), (5, 5, 999) in any
\* order, getDataFromCSV returns the one value (10 + 20) / 2 = 15, and the
\* sample at (5, 5) is added to no cell.
ScenarioSamples == {<<1, 1, 10>>, <<3, 3, 20>>, <<20, 20, 999>>}

C11_Scenario ==
    (/\ tool = "getDataFromCSV" /\ pc = "gd_done"
     /\ mesh = UnitSquare
     /\ Size(data_points) = 3
     /\ {data_points[k] : k \in DOMAIN data_points} = ScenarioSamples) =>
        /\ data = Vec(<<Frac(15, 1)>>)
        /\ counter = Vec(<<2>>)
        /\ \A j \in DOMAIN data_points :
              assigned[j] = IF data_points[j] = <<20, 20, 999>> THEN NoCell ELSE 0

C11_Witness ==
    /\ tool = "getDataFromCSV" /\ pc = "gd_done"
    /\ mesh = UnitSquare
    /\ data_points = Vec(<< <<1, 1, 10>>, <<3, 3, 20>>, <<20, 20, 999>> >>)
    /\ data = Vec(<<Frac(15, 1)>>)
    /\ dropped = 1

\* C12: while getDataFromCSV holds the projected mesh, that mesh has the nodes
\* and the cells of the mesh it was given under the same ids, every cell
\* references the same node ids and every node has the same connected cells;
\* the nodes differ in their z coordinate only.  Hence the id of the cell a
\* sample was added to is the id of a cell of the given mesh, whose nodes 0, 1
\* and 2, projected, enclose the sample.
C12_ProjectionKeepsStructure ==
    (pc \in {"gd_loop", "gd_avg"}) =>
        /\ DOMAIN flat_mesh.nodes = DOMAIN mesh.nodes
        /\ DOMAIN flat_mesh.elems = DOMAIN mesh.elems
        /\ \A c \in Cells(mesh) : flat_mesh.elems[c] = mesh.elems[c]
        /\ \A n \in DOMAIN mesh.nodes :
              /\ getElements(flat_mesh, n) = getElements(mesh, n)
              /\ flat_mesh.nodes[n] = <<mesh.nodes[n][1], mesh.nodes[n][2], 0>>
        /\ \A j \in DOMAIN assigned :
              assigned[j] # NoCell =>
                  /\ assigned[j] \in Cells(mesh)
                  /\ LET e == mesh.elems[assigned[j]]
                         flat(n) == <<mesh.nodes[n][1], mesh.nodes[n][2], 0>>
                     IN  gaussPointInTriangle(<<data_points[j][1], data_points[j][2], 0>>,
                                              flat(e[0]), flat(e[1]), flat(e[2]))

C12_Witness ==
    /\ tool = "getDataFromCSV" /\ pc = "gd_avg"
    /\ Size(mesh.elems) = 2
    /\ \E n \in DOMAIN mesh.nodes : mesh.nodes[n] # flat_mesh.nodes[n]
    /\ \E j \in DOMAIN assigned : assigned[j] = 1
    /\ \E j \in DOMAIN assigned : assigned[j] = 0

\* C13: the step of getDataFromCSV that projects the mesh leaves the nodes of
\* the given mesh as they were, and the nodes of the projected mesh with the z
\* coordinate of the given mesh put back are the nodes of the given mesh.
C13_ProjectionRoundTrip ==
    [][pc = "gd_start" =>
          /\ mesh'.nodes = mesh.nodes
          /\ DOMAIN flat_mesh'.nodes = DOMAIN mesh.nodes
          /\ \A n \in DOMAIN mesh.nodes :
                <<flat_mesh'.nodes[n][1], flat_mesh'.nodes[n][2], mesh.nodes[n][3]>>
                    = mesh.nodes[n]]_vars

C13_Witness ==
    /\ tool = "getDataFromCSV" /\ pc = "gd_loop"
    /\ \E n \in DOMAIN mesh.nodes : mesh.nodes[n][3] # 0 /\ flat_mesh.nodes[n][3] = 0
    /\ \A n \in DOMAIN mesh.nodes :
          <<flat_mesh.nodes[n][1], flat_mesh.nodes[n][2], mesh.nodes[n][3]>> = mesh.nodes[n]

\* The time steps of a CSV file: its lines split at the empty lines.
RECURSIVE TsBlocks(_)
TsBlocks(lines) ==
    IF Len(lines) = 0 THEN <<>>
    ELSE LET rest == TsBlocks(Tail(lines))
         IN  IF Len(Head(lines)) = 0
             THEN IF Len(rest) > 0 /\ Len(Head(rest)) = 0 THEN rest ELSE <<<<>>>> \o rest
             ELSE IF Len(rest) = 0 THEN << <<Head(lines)>> >>
                  ELSE << <<Head(lines)>> \o Head(rest) >> \o Tail(rest)

TsSteps(csv) == SelectSeq(TsBlocks(csv.lines), LAMBDA b : Len(b) > 0)

\* The values of a time step: the fields after the first of each line, NaN
\* read as 0.
RECURSIVE TsStepFields(_)
TsStepFields(block) ==
    IF Len(block) = 0 THEN <<>> ELSE Tail(Head(block)) \o TsStepFields(Tail(block))

TsStepValues(block) ==
    LET f == TsStepFields(block)
    IN  [k \in 0..(Len(f) - 1) |-> IF f[k + 1].kind = "NaN" THEN 0 ELSE f[k + 1].value]

\* A mesh a time step can be added to: it has its MaterialIDs and no array of
\* the name of the CSV file yet.
TsUsable(m) ==
    /\ m # NoMesh
    /\ hasProperty(m, "MaterialIDs")
    /\ max_element(getPropertyVector(m, "MaterialIDs")) >= 0
    /\ ~hasProperty(m, TsPropName)

\* The mesh of time step t: the base mesh, or the file <output><t>.vtu.
TsMeshOf(st, t) == IF st.base_set THEN st.base ELSE DiskAt(st.disk_in, t)

\* The CSV file holds time steps of one value per cell of the mesh of the step.
TsWellFormed(st) ==
    /\ st.csv.open
    /\ Len(TsSteps(st.csv)) > 0
    /\ \A t \in 0..(Len(TsSteps(st.csv)) - 1) :
          /\ TsUsable(TsMeshOf(st, t))
          /\ \A k \in 1..Len(TsStepFields(TsSteps(st.csv)[t + 1])) :
                TsStepFields(TsSteps(st.csv)[t + 1])[k].kind # "text"
          /\ Len(TsStepFields(TsSteps(st.csv)[t + 1])) = Size(TsMeshOf(st, t).elems)

\* The files written, in the order of the writes.
TsWrites == SelectSeq(log, LAMBDA ev : ev.op = "write")

\* C14: addScalarArrayTimeSeries, run on a CSV file of T time steps of one
\* value per cell and not stopped by the user, ends with the code 0 having
\* written <output>0.vtu ... <output>T-1.vtu in this order, file t being the
\* mesh of step t with one more array, named after the CSV file, that holds
\* the values of time step t, one per cell.
C14_TimeSeriesWritten ==
    (/\ tool = "addScalarArrayTimeSeries"
     /\ pc \in {"exit", "crash"}
     /\ rc # -7
     /\ TsWellFormed(loc)) =>
        LET T == Len(TsSteps(loc.csv))
        IN  /\ pc = "exit" /\ rc = 0
            /\ Len(TsWrites) = T
            /\ \A t \in 0..(T - 1) :
                  /\ TsWrites[t + 1].file = <<"output", t>>
                  /\ IsFileExisting(loc.disk, t)
                  /\ loc.disk[t] = createNewPropertyVector(TsMeshOf(loc, t), TsPropName,
                                                           TsStepValues(TsSteps(loc.csv)[t + 1]))

ErtStrip(st) ==
    LET W == st.n_nodes_per_layer
    IN  /\ Size(st.nodes) = (st.mat_id + 1) * (W + 1)
        /\ Size(st.quads) = st.mat_id * W
        /\ Size(st.materials) = Size(st.quads)
        /\ \A q \in DOMAIN st.quads :
              LET m == q \div W
                  c == q % W
              IN  /\ st.quads[q] = Vec(<< m * (W + 1) + c, (m + 1) * (W + 1) + c,
                                          (m + 1) * (W + 1) + c + 1, m * (W + 1) + c + 1 >>)
                  /\ \A k \in 0..3 : st.quads[q][k] < (m + 1) * (W + 1) + c + 2
                  /\ st.materials[q] = m

\* C16: once ErtData2Mesh has read its columns and found them consistent, it
\* reads points1, points2, z1, z2 and elevation_correction within their bounds
\* only, the quads it has built are those of the strip of width
\* W = n_nodes_per_layer, and when it has written the mesh there are
\* (L+1) (W+1) nodes and L W quads for L = n_quads / W.
C16_QuadStrip ==
    (tool = "ErtData2Mesh" /\ pc \in {"crash", "layers", "exit"}
        /\ "points1" \in DOMAIN loc) =>
        /\ pc = "crash" =>
              /\ Size(loc.points1) > 0 /\ Size(loc.z1) > 0
              /\ loc.n_nodes_per_layer <= Size(loc.points2)
              /\ loc.n_nodes_per_layer <= Size(loc.z1)
        /\ pc = "layers" => ErtStrip(loc)
        /\ (pc = "exit" /\ rc = 0) =>
              LET W == loc.n_nodes_per_layer
                  L == Size(loc.points1) \div W
              IN  /\ ErtStrip(loc)
                  /\ Size(mesh.nodes) = (L + 1) * (W + 1)
                  /\ Size(mesh.elems) = L * W
                  /\ mesh.elems = loc.quads
                  /\ getPropertyVector(mesh, "MaterialIDs") = loc.materials

\* The extrusion has run: makeBuildings returned its points and surfaces.
MkbDone ==
    tool = "makeBuildings" /\ pc \in {"write", "exit"} /\ rc # 1 /\ loc # <<>>

\* Point p lifted by h.
Raised(p, h) == <<p[1], p[2], p[3] + h>>

\* The output surfaces of geometry geo: the floor copies first, one wall for
\* each polyline next, the roofs last.
MkbFloor(geo, out, j) == out.sfcs[j]
MkbWall(geo, out, q)  == out.sfcs[Size(geo.sfcs) + q]
MkbRoof(geo, out, j)  == out.sfcs[Size(geo.sfcs) + Size(geo.plys) + j]

MkbExtruded(geo, height, out) ==
    LET n == Size(geo.pnts)
    IN  /\ Size(out.pnts) = 2 * n
        /\ \A k \in 0 .. n - 1 :
              /\ out.pnts[k] = geo.pnts[k]
              /\ out.pnts[k + n] = Raised(geo.pnts[k], height)
        /\ Size(out.sfcs) = 2 * Size(geo.sfcs) + Size(geo.plys)
        /\ \A s \in DOMAIN out.sfcs : \A t \in DOMAIN out.sfcs[s] : \A c \in 1 .. 3 :
              /\ out.sfcs[s][t][c] \in 0 .. 2 * n - 1
              /\ out.sfcs[s][t][c] \in DOMAIN out.pnts
        /\ \A q \in DOMAIN geo.plys :
              LET p == geo.plys[q]
                  w == MkbWall(geo, out, q)
              IN  /\ Size(w) = 2 * (Size(p) - 1)
                  /\ \A k \in 1 .. Size(p) - 1 :
                        /\ w[2 * (k - 1)] = <<p[k], p[k - 1], p[k - 1] + n>>
                        /\ w[2 * (k - 1) + 1] = <<p[k], p[k - 1] + n, p[k] + n>>
        /\ \A j \in DOMAIN geo.sfcs :
              /\ Size(MkbFloor(geo, out, j)) = Size(geo.sfcs[j])
              /\ Size(MkbRoof(geo, out, j)) = Size(geo.sfcs[j])
              /\ \A t \in DOMAIN geo.sfcs[j] :
                    /\ MkbFloor(geo, out, j)[t] = geo.sfcs[j][t]
                    /\ MkbRoof(geo, out, j)[t] =
                          <<geo.sfcs[j][t][1] + n, geo.sfcs[j][t][2] + n, geo.sfcs[j][t][3] + n>>

\* C17: when makeBuildings has extruded a geometry of n points, the output has
\* 2n points, point k + n being point k lifted by the height; every triangle of
\* every output surface names point ids below 2n of existing points; every
\* polyline segment (a, b) gives exactly the wall triangles (b, a, a+n) and
\* (b, a+n, b+n); every input triangle (u, v, w) is there as the floor copy
\* (u, v, w) and as the roof (u+n, v+n, w+n).
C17_Extrusion ==
    MkbDone => MkbExtruded(loc.geo, loc.height, loc.out)

\* A geometry with a closed outline, an open wall line and points at two
\* elevations has been extruded downwards and written.
C17_Witness ==
    /\ MkbDone
    /\ pc = "exit"
    /\ rc = 0
    /\ loc.geo = GeoYard
    /\ loc.height = -2
    /\ Size(loc.out.pnts) = 10
    /\ Size(MkbWall(loc.geo, loc.out, 0)) = 6
    /\ loc.out.pnts[8] = <<8, 0, 0>>

----------------------------------------------------------------------------
(* The command line tools *)

InitCli ==
    /\ tool \in {"addEmiDataToMesh", "EmiData2PolyData", "ErtData2Mesh",
                 "makeBuildings", "addScalarArrayTimeSeries"}
    /\ pc = "main"
    /\ rc = NoRc
    /\ mesh = NoMesh
    /\ data_points = <<>>
    /\ flat_mesh = NoMesh
    /\ data = <<>>
    /\ counter = <<>>
    /\ i = 0
    /\ assigned = <<>>
    /\ dropped = 0
    /\ loc = <<>>
    /\ log = <<>>

NextCli ==
    \/ getDataFromCSV
    \/ addEmiDataToMesh
    \/ EmiData2PolyData
    \/ ErtData2Mesh
    \/ makeBuildingsTool
    \/ addScalarArrayTimeSeries

SpecCli == InitCli /\ [][NextCli]_vars
====
